---- MODULE Spec2Model ----
(***************************************************************************)
(* Model of the note backend: captcha-gated register/login, JWT-protected  *)
(* note and profile routes, and the ownership-scoped note store.           *)
(*                                                                         *)
(* JavaScript strings are tuples of one-character strings, so that trim,   *)
(* toLowerCase, length and the password regular expression are computed.   *)
(***************************************************************************)
EXTENDS Integers, Sequences, FiniteSets, TLC

\* ------------------------------------------------------------------ bounds
MaxInFlight == 2
MaxProfiles == 2
MaxNotes == 2
MaxListNotes == 15
MaxTime == 8

\* --------------------------------------------------------------- constants
\* expiresIn: '7d', counted in days
TokenTTL == 7
DefaultPage == 1
DefaultLimit == 10

\* ------------------------------------------------------------ JS values
\* the JavaScript value undefined (a missing body field, header or query)
Absent == <<"undefined">>

\* !x for a string-or-undefined x
Falsy(x) == x = Absent \/ x = <<>>

\* a || b
OrElse(a, b) == IF Falsy(a) THEN b ELSE a

UpperChars == <<"A","B","C","D","E","F","G","H","I","J","K","L","M",
                "N","O","P","Q","R","S","T","U","V","W","X","Y","Z">>
LowerChars == <<"a","b","c","d","e","f","g","h","i","j","k","l","m",
                "n","o","p","q","r","s","t","u","v","w","x","y","z">>
DigitChars == {"0","1","2","3","4","5","6","7","8","9"}
WhiteSpace == {" ", "\t", "\n"}

IsUpper(c) == \E i \in 1..26 : UpperChars[i] = c
IsLower(c) == \E i \in 1..26 : LowerChars[i] = c
IsDigit(c) == c \in DigitChars

LowerOf(c) == IF IsUpper(c) THEN LowerChars[CHOOSE i \in 1..26 : UpperChars[i] = c] ELSE c

\* String.prototype.toLowerCase
toLowerCase(s) == [i \in 1..Len(s) |-> LowerOf(s[i])]

\* String.prototype.trim
RECURSIVE trimStart(_)
trimStart(s) == IF s # <<>> /\ Head(s) \in WhiteSpace THEN trimStart(Tail(s)) ELSE s
RECURSIVE trimEnd(_)
trimEnd(s) == IF s # <<>> /\ s[Len(s)] \in WhiteSpace THEN trimEnd(SubSeq(s, 1, Len(s) - 1)) ELSE s
trim(s) == trimEnd(trimStart(s))

\* String.prototype.includes for a one-character needle
includes(s, c) == \E i \in 1..Len(s) : s[i] = c

\* ------------------------------------------------------------ errors.ts
ValidationError(message) == [name |-> "ValidationError", status |-> 400, message |-> message]
StoreError(message) == [name |-> "MongoError", status |-> 0, message |-> message]
NoError == [name |-> "none", status |-> 0, message |-> ""]

\* messages, in the order they appear in the source
MsgChallengeExpired == "captcha expired"                \* '验证码已过期'
MsgAnswerMissing == "captcha required"                  \* '请输入验证码'
MsgAnswerMismatch == "captcha wrong"                    \* '验证码错误'
MsgUsernameShort == "username needs 3 characters"       \* '用户名至少需要3个字符'
MsgUsernameSpace == "username must not contain spaces"  \* '用户名不能包含空格'
MsgPasswordShort == "password needs 8 characters"       \* '密码至少需要8个字符'
MsgPasswordWeak == "password needs upper lower digit"   \* '密码必须包含大小写字母和数字'
MsgLoginRequired == "username and password required"    \* '用户名和密码都是必填项'
MsgAlreadyExists == "user exists"                       \* '用户已存在'
MsgInvalidCredentials == "username or password wrong"   \* '用户名或密码错误'
MsgTokenMissing == "no token"                           \* '没有提供 token，拒绝访问'
MsgTokenInvalid == "token invalid"                      \* 'token 无效'
MsgNoteNotFound == "note not found"                     \* '笔记不存在'
MsgUserNotFound == "user not found"                     \* '用户不存在'
MsgServerError == "server error"                        \* '服务器错误'
MsgRegistered == "registered"                           \* '注册成功'
MsgLoggedIn == "logged in"                              \* '登录成功'
MsgDeleted == "deleted"                                 \* '删除成功'

\* ---------------------------------------------------------- response.ts
NoData == [kind |-> "none"]
createSuccessResponse(data, message) ==
    [success |-> TRUE, data |-> data, message |-> message, error |-> "absent"]
createErrorResponse(message) ==
    [success |-> FALSE, data |-> NoData, message |-> message, error |-> "empty"]

\* one res.status(s).json(b) call
Write(status, body) == [status |-> status, body |-> body]

\* ------------------------------------------------------------ input sets
Sessions == {"s1", "s2"}
Reqs == 1..MaxInFlight

\* svgCaptcha.createMathExpr({mathMin: 1, mathMax: 10}).text: a decimal number
CaptchaTexts == { <<"7">> }
CaptchaInputs == CaptchaTexts \cup {Absent, <<>>, <<"8">>}

GoodUsername == <<"a","b","c">>
GoodPassword == <<"P","a","s","s","w","0","r","d">>
OtherUsername == <<"x","y","z">>
WrongPassword == <<"p","a","s","s","w","0","r","d">>
UsernameInputs == { Absent, <<"a","b">>, GoodUsername, <<" ","a","b","c">>, <<"a"," ","c">> }
PasswordInputs == { Absent, GoodPassword, WrongPassword,
                    <<"P","a","s","s","0","r","d">>,
                    <<"P","a","s","s","w","o","r","d">> }
NoProfileFields == [fullName |-> Absent, bio |-> Absent, avatar |-> Absent]
ProfileInputs == { NoProfileFields,
                   [fullName |-> <<"A","l">>, bio |-> <<"h","i">>, avatar |-> <<"p">>] }

\* request bodies: every captcha with the good credentials, and every
\* username, password and profile with a captcha that can be the right one
RegisterBodies ==
    { [captcha |-> c, username |-> GoodUsername, password |-> GoodPassword,
       fullName |-> f.fullName, bio |-> f.bio, avatar |-> f.avatar] :
      c \in CaptchaInputs, f \in ProfileInputs }
    \cup
    { [captcha |-> c, username |-> u, password |-> GoodPassword,
       fullName |-> Absent, bio |-> Absent, avatar |-> Absent] :
      c \in CaptchaTexts, u \in UsernameInputs }
    \cup
    { [captcha |-> c, username |-> GoodUsername, password |-> p,
       fullName |-> Absent, bio |-> Absent, avatar |-> Absent] :
      c \in CaptchaTexts, p \in PasswordInputs }
LoginBodies ==
    { [captcha |-> c, username |-> GoodUsername, password |-> GoodPassword] :
      c \in CaptchaInputs }
    \cup
    { [captcha |-> c, username |-> u, password |-> p] :
      c \in CaptchaTexts, u \in {Absent, GoodUsername, OtherUsername},
      p \in {Absent, GoodPassword, WrongPassword} }

\* ------------------------------------------------------------------ state
VARIABLES
    production,   \* process.env.NODE_ENV === 'production'
    session,      \* session store: session id -> req.session.captcha
    auths,        \* UserAuth collection
    profiles,     \* UserProfile collection
    notes,        \* Note collection
    noteSeq,      \* number of notes created so far (ObjectId / createdAt order)
    now,          \* wall clock, in days
    issued,       \* history: tokens returned by register/login
    succeeded,    \* history: usernames whose register request was answered with a token
    solved,       \* history: session id -> a submission passed validateCaptcha since the last issue
    reg,          \* register requests between two awaits
    loginLog,     \* history: rejected logins, by whether the username existed
    last          \* observation of the handler step taken last

vars == <<production, session, auths, profiles, notes, noteSeq, now, issued,
          succeeded, solved, reg, loginLog, last>>

\* ------------------------------------------------- captcha middleware
\* req.session always exists here: index.ts mounts express-session ahead of
\* the routers, so the !req.session branch cannot be taken.
\* variant without the delete of req.session.captcha
validateCaptchaKeep(sessionCaptcha, captcha) ==
    IF Falsy(sessionCaptcha)
    THEN [error |-> ValidationError(MsgChallengeExpired), captcha |-> sessionCaptcha]
    ELSE IF Falsy(captcha)
    THEN [error |-> ValidationError(MsgAnswerMissing), captcha |-> sessionCaptcha]
    ELSE IF toLowerCase(captcha) # toLowerCase(sessionCaptcha)
    THEN [error |-> ValidationError(MsgAnswerMismatch), captcha |-> sessionCaptcha]
    ELSE [error |-> NoError, captcha |-> sessionCaptcha]

\* variant that drops the challenge on a wrong answer as well
validateCaptchaBurn(sessionCaptcha, captcha) ==
    IF Falsy(sessionCaptcha)
    THEN [error |-> ValidationError(MsgChallengeExpired), captcha |-> sessionCaptcha]
    ELSE IF Falsy(captcha)
    THEN [error |-> ValidationError(MsgAnswerMissing), captcha |-> sessionCaptcha]
    ELSE IF toLowerCase(captcha) # toLowerCase(sessionCaptcha)
    THEN [error |-> ValidationError(MsgAnswerMismatch), captcha |-> Absent]
    ELSE [error |-> NoError, captcha |-> Absent]

\* returns the error handed to next() and req.session.captcha afterwards
validateCaptcha(sessionCaptcha, captcha) ==
    IF Falsy(sessionCaptcha)
    THEN [error |-> ValidationError(MsgChallengeExpired), captcha |-> sessionCaptcha]
    ELSE IF Falsy(captcha)
    THEN [error |-> ValidationError(MsgAnswerMissing), captcha |-> sessionCaptcha]
    ELSE IF toLowerCase(captcha) # toLowerCase(sessionCaptcha)
    THEN [error |-> ValidationError(MsgAnswerMismatch), captcha |-> sessionCaptcha]
    ELSE [error |-> NoError, captcha |-> Absent]

\* ---------------------------------------------- validation middleware
validateUsername(username) ==
    LET trimmedUsername == IF username = Absent THEN Absent ELSE trim(username)
    IN  IF Falsy(trimmedUsername) \/ Len(trimmedUsername) < 3
        THEN [error |-> ValidationError(MsgUsernameShort), value |-> Absent]
        ELSE IF includes(trimmedUsername, " ")
        THEN [error |-> ValidationError(MsgUsernameSpace), value |-> Absent]
        ELSE [error |-> NoError, value |-> trimmedUsername]

\* /^(?=.*[a-z])(?=.*[A-Z])(?=.*\d).+$/ : "." does not match a line break
passwordRegex(password) ==
    /\ password # <<>>
    /\ ~includes(password, "\n")
    /\ \E i \in 1..Len(password) : IsLower(password[i])
    /\ \E i \in 1..Len(password) : IsUpper(password[i])
    /\ \E i \in 1..Len(password) : IsDigit(password[i])

validatePassword(password) ==
    IF Falsy(password) \/ Len(password) < 8
    THEN ValidationError(MsgPasswordShort)
    ELSE IF ~passwordRegex(password)
    THEN ValidationError(MsgPasswordWeak)
    ELSE NoError

\* returns the thrown error and req.body.username afterwards
validateRegister(body) ==
    LET u == validateUsername(body.username)
    IN  IF u.error # NoError THEN [error |-> u.error, username |-> body.username]
        ELSE [error |-> validatePassword(body.password), username |-> u.value]

validateLogin(body) ==
    IF Falsy(body.username) \/ Falsy(body.password)
    THEN ValidationError(MsgLoginRequired)
    ELSE NoError

\* ------------------------------------------------ global error handler
errorHandler(err) ==
    Write(500, [success |-> FALSE, data |-> NoData,
                message |-> IF production THEN MsgServerError ELSE err.message,
                error |-> "absent"])

\* ------------------------------------------------------------ auth routes
\* router.post('/register', validateCaptcha, validateRegister, register)
\* variant: the earlier router, which mounts no captcha middleware
RegisterRouteBare == <<"validateRegister">>
RegisterRoute == <<"validateCaptcha", "validateRegister">>
\* router.post('/login', validateCaptcha, validateLogin, login)
LoginRoute == <<"validateCaptcha", "validateLogin">>

\* one middleware applied to the request context
\* ctx: req.session.captcha, req.body, the error handed to next(), what ran
RunMiddleware(name, ctx) ==
    CASE name = "validateCaptcha" ->
            LET r == validateCaptcha(ctx.captcha, ctx.body.captcha)
            IN  [ctx EXCEPT !.error = r.error, !.captcha = r.captcha,
                            !.trace = Append(@, IF r.error = NoError THEN "captchaPassed"
                                                                     ELSE "captchaFailed")]
      [] name = "validateRegister" ->
            LET r == validateRegister(ctx.body)
            IN  [ctx EXCEPT !.error = r.error, !.body.username = r.username,
                            !.trace = Append(@, "validateRegister")]
      [] name = "validateLogin" ->
            [ctx EXCEPT !.error = validateLogin(ctx.body),
                        !.trace = Append(@, "validateLogin")]

\* express runs the route's middleware in order; next(err) or a throw skips the rest
RECURSIVE RunChain(_, _)
RunChain(route, ctx) ==
    IF route = <<>> \/ ctx.error # NoError THEN ctx
    ELSE RunChain(Tail(route), RunMiddleware(Head(route), ctx))

Range(f) == {f[i] : i \in DOMAIN f}

NoObservation == [op |-> "none"]

\* a register request for this username was answered with a token before
RegisteredBefore(username) ==
    username # Absent /\ trim(username) \in succeeded

Request(s, body) == [captcha |-> session[s], body |-> body, error |-> NoError, trace |-> <<>>]

\* what the request did to the captcha of its session
CaptchaObservation(s, body, ctx) ==
    [sess |-> s, captcha |-> body.captcha, captchaBefore |-> session[s],
     solvedBefore |-> solved[s],
     ran |-> ctx.trace # <<>> /\ Head(ctx.trace) \in {"captchaPassed", "captchaFailed"},
     passed |-> "captchaPassed" \in Range(ctx.trace),
     error |-> IF "captchaFailed" \in Range(ctx.trace) THEN ctx.error ELSE NoError]

\* ------------------------------------------------------------ the store
\* UserAuthSchema.pre('save'): bcrypt.hash(password, salt)
bcryptHash(password) == [salt |-> "$2a$10$", digest |-> password]
\* UserAuthSchema.methods.comparePassword
comparePassword(user, candidatePassword) ==
    candidatePassword # Absent /\ user.password.digest = candidatePassword

\* UserAuth.findOne({ username })
\* variant: a lookup that never finds the username
findUserNone(username) == {}
findUser(username) == {a \in auths : a.username = username}

\* jwt.sign({ user: { id } }, JWT_SECRET, { expiresIn: '7d' })
createToken(userId) ==
    [sub |-> userId, iat |-> now, exp |-> now + TokenTTL, sig |-> "JWT_SECRET"]

\* no token in the response
NoToken == [sub |-> 0, iat |-> 0, exp |-> 0, sig |-> "none"]

Idle == [pc |-> "idle"]

\* ------------------------------------------------------ GET /auth/captcha
\* the 200 is sent before the save callback runs; a failed save leaves the
\* session store as it was and then attempts a second response
GenerateCaptcha(s, text, saveOk) ==
    /\ session' = [session EXCEPT ![s] = IF saveOk THEN text ELSE @]
    /\ solved' = [solved EXCEPT ![s] = IF saveOk THEN FALSE ELSE @]
    /\ last' = [op |-> "captcha", sess |-> s, text |-> text, saveOk |-> saveOk,
                writes |-> <<Write(200, [kind |-> "svg", text |-> text])>>
                           \o (IF saveOk THEN <<>>
                               ELSE <<Write(500, [kind |-> "sessionSaveFailed"])>>)]
    /\ UNCHANGED <<production, auths, profiles, notes, noteSeq, now, issued,
                   succeeded, reg>>

\* ---------------------------------------------------- POST /auth/register
\* the middleware, then register up to its first await that writes
RegisterBegin(r, s, body) ==
    /\ reg[r] = Idle
    /\ LET ctx == RunChain(RegisterRoute, Request(s, body))
           obs == [op |-> "register", username |-> body.username,
                   password |-> body.password,
                   registeredBefore |-> RegisteredBefore(body.username),
                   cap |-> CaptchaObservation(s, body, ctx),
                   trace |-> ctx.trace, created |-> {}, token |-> NoToken,
                   writes |-> <<>>]
           username == ctx.body.username
       IN  /\ session' = [session EXCEPT ![s] = ctx.captcha]
           /\ solved' = [solved EXCEPT ![s] = @ \/ "captchaPassed" \in Range(ctx.trace)]
           /\ IF ctx.error # NoError
              THEN /\ last' = [obs EXCEPT !.writes = <<errorHandler(ctx.error)>>]
                   /\ reg' = reg
              ELSE IF findUser(username) # {}
              THEN /\ last' = [obs EXCEPT
                                 !.trace = Append(@, "findOne"),
                                 !.writes = <<Write(400, createErrorResponse(MsgAlreadyExists))>>]
                   /\ reg' = reg
              ELSE /\ reg' = [reg EXCEPT ![r] =
                                 [pc |-> "saveProfile", body |-> ctx.body, profile |-> 0,
                                  obs |-> [obs EXCEPT !.trace = Append(@, "findOne"),
                                                      !.cap = NoObservation]]]
                   /\ last' = [obs EXCEPT !.trace = Append(@, "findOne")]
    /\ UNCHANGED <<production, auths, profiles, notes, noteSeq, now, issued,
                   succeeded, loginLog>>

\* new UserProfile({ fullName: fullName || username, bio, avatar }).save()
RegisterSaveProfile(r, ok) ==
    /\ reg[r].pc = "saveProfile"
    /\ LET q == reg[r]
           id == Cardinality(profiles) + 1
           doc == [id |-> id, fullName |-> OrElse(q.body.fullName, q.body.username),
                   bio |-> q.body.bio, avatar |-> q.body.avatar]
       IN  IF ok
           THEN /\ Cardinality(profiles) < MaxProfiles
                /\ profiles' = profiles \cup {doc}
                /\ reg' = [reg EXCEPT ![r] =
                              [q EXCEPT !.pc = "saveAuth", !.profile = id,
                                        !.obs.trace = Append(@, "saveProfile"),
                                        !.obs.created = @ \cup {<<"UserProfile", id>>}]]
                /\ last' = reg'[r].obs
           ELSE /\ profiles' = profiles
                /\ reg' = [reg EXCEPT ![r] = Idle]
                /\ last' = [q.obs EXCEPT
                              !.writes = <<errorHandler(StoreError("profile save failed"))>>]
    /\ UNCHANGED <<production, session, auths, notes, noteSeq, now, issued,
                   succeeded, solved, loginLog>>

\* username: { unique: true }: the index admits an insert only when no
\* document holds the username
\* variant: a collection without the index
uniqueIndexAbsent(username) == TRUE
uniqueIndex(username) == ~(\E a \in auths : a.username = username)

\* new UserAuth({ username, password, profile }).save(), createToken, res.json
\* the unique index on username rejects a second document with the same name
RegisterSaveAuth(r, ok) ==
    /\ reg[r].pc = "saveAuth"
    /\ LET q == reg[r]
           id == Cardinality(auths) + 1
           doc == [id |-> id, username |-> q.body.username,
                   password |-> bcryptHash(q.body.password), profile |-> q.profile]
           token == createToken(id)
       IN  IF ok /\ uniqueIndex(q.body.username)
           THEN /\ auths' = auths \cup {doc}
                /\ issued' = issued \cup {token}
                /\ succeeded' = succeeded \cup {q.body.username}
                /\ last' = [q.obs EXCEPT
                              !.trace = @ \o <<"saveAuth", "createToken">>,
                              !.created = @ \cup {<<"UserAuth", id>>},
                              !.token = token,
                              !.writes = <<Write(200, createSuccessResponse(
                                              [kind |-> "token", token |-> token],
                                              MsgRegistered))>>]
           ELSE /\ UNCHANGED <<auths, issued, succeeded>>
                /\ last' = [q.obs EXCEPT
                              !.writes = <<errorHandler(StoreError(
                                             IF ok THEN "E11000 duplicate key"
                                                   ELSE "auth save failed"))>>]
    /\ reg' = [reg EXCEPT ![r] = Idle]
    /\ UNCHANGED <<production, session, profiles, notes, noteSeq, now, solved,
                   loginLog>>

\* ------------------------------------------------------- POST /auth/login
\* variant: an unknown username is answered differently from a wrong password
loginDistinct(user, password) ==
    IF user = {} THEN Write(404, createErrorResponse(MsgUserNotFound))
    ELSE IF ~comparePassword(CHOOSE a \in user : TRUE, password)
    THEN Write(400, createErrorResponse(MsgInvalidCredentials))
    ELSE Write(200, createSuccessResponse(
                 [kind |-> "token", token |-> createToken((CHOOSE a \in user : TRUE).id)],
                 MsgLoggedIn))

\* the controller's response, given the result of UserAuth.findOne
login(user, password) ==
    IF user = {} \/ ~comparePassword(CHOOSE a \in user : TRUE, password)
    THEN Write(400, createErrorResponse(MsgInvalidCredentials))
    ELSE Write(200, createSuccessResponse(
                 [kind |-> "token", token |-> createToken((CHOOSE a \in user : TRUE).id)],
                 MsgLoggedIn))

Login(s, body) ==
    /\ LET ctx == RunChain(LoginRoute, Request(s, body))
           user == findUser(body.username)
           w == login(user, body.password)
           obs == [op |-> "login", username |-> body.username,
                   password |-> body.password,
                   registeredBefore |-> RegisteredBefore(body.username),
                   cap |-> CaptchaObservation(s, body, ctx),
                   trace |-> ctx.trace, created |-> {}, token |-> NoToken,
                   writes |-> <<>>]
       IN  /\ session' = [session EXCEPT ![s] = ctx.captcha]
           /\ solved' = [solved EXCEPT ![s] = @ \/ "captchaPassed" \in Range(ctx.trace)]
           /\ IF ctx.error # NoError
              THEN /\ last' = [obs EXCEPT !.writes = <<errorHandler(ctx.error)>>]
                   /\ UNCHANGED issued
              ELSE IF w.status = 200
              THEN /\ last' = [obs EXCEPT
                                 !.trace = @ \o <<"findOne", "createToken">>,
                                 !.token = w.body.data.token,
                                 !.writes = <<w>>]
                   /\ issued' = issued \cup {w.body.data.token}
              ELSE /\ last' = [obs EXCEPT !.trace = Append(@, "findOne"), !.writes = <<w>>]
                   /\ UNCHANGED issued
    /\ UNCHANGED <<production, auths, profiles, notes, noteSeq, now, succeeded, reg>>

\* Login, remembering the response of every login that reached the controller
LoginLogged(s, body) ==
    /\ Login(s, body)
    /\ loginLog' = IF last'.cap.passed /\ ~Falsy(body.username) /\ ~Falsy(body.password)
                   THEN loginLog \cup {[registered |-> body.username \in succeeded,
                                        password |-> body.password,
                                        write |-> Head(last'.writes)]}
                   ELSE loginLog

\* ------------------------------------------------------------------ auth spec

Init ==
    /\ production \in BOOLEAN
    /\ session = [s \in Sessions |-> Absent]
    /\ auths = {}
    /\ profiles = {}
    /\ notes = {}
    /\ noteSeq = 0
    /\ now = 0
    /\ issued = {}
    /\ succeeded = {}
    /\ solved = [s \in Sessions |-> FALSE]
    /\ reg = [r \in Reqs |-> Idle]
    /\ loginLog = {}
    /\ last = NoObservation

Next ==
    \/ \E s \in Sessions, text \in CaptchaTexts, saveOk \in BOOLEAN :
          GenerateCaptcha(s, text, saveOk) /\ UNCHANGED loginLog
    \/ \E s \in Sessions, body \in RegisterBodies : RegisterBegin(1, s, body)
    \/ \E ok \in BOOLEAN : RegisterSaveProfile(1, ok)
    \/ \E ok \in BOOLEAN : RegisterSaveAuth(1, ok)
    \/ \E s \in Sessions, body \in LoginBodies : Login(s, body) /\ UNCHANGED loginLog

Spec == Init /\ [][Next]_vars

\* ----------------------------------------------------------------- login spec
\* one account exists: the state after a register request for GoodUsername
RegisteredProfile == [id |-> 1, fullName |-> GoodUsername, bio |-> Absent, avatar |-> Absent]
RegisteredAuth == [id |-> 1, username |-> GoodUsername,
                   password |-> bcryptHash(GoodPassword), profile |-> 1]
RegisteredToken == [sub |-> 1, iat |-> 0, exp |-> TokenTTL, sig |-> "JWT_SECRET"]

InitLogin ==
    /\ production \in BOOLEAN
    /\ session = [s \in Sessions |-> Absent]
    /\ auths = {RegisteredAuth}
    /\ profiles = {RegisteredProfile}
    /\ notes = {}
    /\ noteSeq = 0
    /\ now = 0
    /\ issued = {RegisteredToken}
    /\ succeeded = {GoodUsername}
    /\ solved = [s \in Sessions |-> FALSE]
    /\ reg = [r \in Reqs |-> Idle]
    /\ loginLog = {}
    /\ last = NoObservation

NextLogin ==
    \/ \E s \in Sessions, text \in CaptchaTexts, saveOk \in BOOLEAN :
          GenerateCaptcha(s, text, saveOk) /\ UNCHANGED loginLog
    \/ \E s \in Sessions, body \in LoginBodies : LoginLogged(s, body)

SpecLogin == InitLogin /\ [][NextLogin]_vars

\* ------------------------------------------------------- authMiddleware
\* jwt.verify(token, JWT_SECRET): the signature, then the expiry
\* variant: the signature only
jwtVerifyNoExpiry(token) == token # NoToken /\ token.sig = "JWT_SECRET"
jwtVerify(token) == token # NoToken /\ token.sig = "JWT_SECRET" /\ now < token.exp

\* the responses the middleware attempts, whether it calls next(), and req.user.
\* Without a token the 401 is sent and the function goes on: jwt.verify throws,
\* the catch attempts a second 401, which throws out of the middleware into
\* the global error handler, which attempts a 500.
authMiddleware(token) ==
    LET missing == IF token = NoToken
                   THEN <<Write(401, createErrorResponse(MsgTokenMissing))>>
                   ELSE <<>>
        invalid == Write(401, createErrorResponse(MsgTokenInvalid))
    IN  IF jwtVerify(token)
        THEN [writes |-> <<>>, next |-> TRUE, user |-> token.sub]
        ELSE [writes |-> missing \o <<invalid>>
                         \o (IF missing # <<>>
                             THEN <<errorHandler(StoreError("headers already sent"))>>
                             ELSE <<>>),
              next |-> FALSE, user |-> 0]

\* ------------------------------------------------------------ note store
NoNote == [id |-> 0, title |-> <<>>, content |-> Absent, user |-> 0, createdAt |-> 0]
NullData == [kind |-> "null"]
NoteData(note) == [kind |-> "note", note |-> note]

\* the document with this _id, whoever owns it
NoteById(id) == IF \E n \in notes : n.id = id THEN CHOOSE n \in notes : n.id = id ELSE NoNote

\* Note.findOne({ _id: id, user: userId })
\* variant: the query without the user field
findNoteAnyOwner(id, user) == {n \in notes : n.id = id}
findNote(id, user) == {n \in notes : n.id = id /\ n.user = user}

serverError == Write(500, createErrorResponse(MsgServerError))

\* createNote: title is required by the schema, so save() rejects a missing
\* or empty title and the catch answers 500
createNote(user, title, content) ==
    IF Falsy(title)
    THEN [writes |-> <<serverError>>, notes |-> notes]
    ELSE LET note == [id |-> noteSeq + 1, title |-> title, content |-> content,
                      user |-> user, createdAt |-> noteSeq + 1]
         IN  [writes |-> <<Write(200, createSuccessResponse(NoteData(note), ""))>>,
              notes |-> notes \cup {note}]

\* getNote: no return after the 404, so res.json is called again, throws,
\* and the catch calls res.status(500).json
getNote(user, id) ==
    LET found == findNote(id, user)
    IN  IF found = {}
        THEN <<Write(404, createErrorResponse(MsgNoteNotFound)),
               Write(200, createSuccessResponse(NullData, "")),
               serverError>>
        ELSE <<Write(200, createSuccessResponse(NoteData(CHOOSE n \in found : TRUE), ""))>>

\* updateNote: title || note.title, content || note.content
updateNote(user, id, title, content) ==
    LET found == findNote(id, user)
    IN  IF found = {}
        THEN [writes |-> <<Write(404, createErrorResponse(MsgNoteNotFound))>>, notes |-> notes]
        ELSE LET note == CHOOSE n \in found : TRUE
                 saved == [note EXCEPT !.title = OrElse(title, note.title),
                                       !.content = OrElse(content, note.content)]
             IN  [writes |-> <<Write(200, createSuccessResponse(NoteData(saved), ""))>>,
                  notes |-> (notes \ {note}) \cup {saved}]

\* deleteNote: Note.findOneAndDelete({ _id, user }); no return after the 404
deleteNote(user, id) ==
    LET found == findNote(id, user)
    IN  IF found = {}
        THEN [writes |-> <<Write(404, createErrorResponse(MsgNoteNotFound)),
                           Write(200, createSuccessResponse(NullData, MsgDeleted)),
                           serverError>>,
              notes |-> notes]
        ELSE [writes |-> <<Write(200, createSuccessResponse(NullData, MsgDeleted))>>,
              notes |-> notes \ found]

\* --------------------------------------------------------------- getNotes
NaN == [nan |-> TRUE, value |-> 0]
Number(n) == [nan |-> FALSE, value |-> n]

DigitSeq == <<"0","1","2","3","4","5","6","7","8","9">>
DigitValue(c) == (CHOOSE i \in 1..10 : DigitSeq[i] = c) - 1

\* the value of the longest prefix of decimal digits; -1 when there is none
RECURSIVE digitsPrefix(_, _, _)
digitsPrefix(s, acc, any) ==
    IF s # <<>> /\ IsDigit(Head(s))
    THEN digitsPrefix(Tail(s), acc * 10 + DigitValue(Head(s)), TRUE)
    ELSE IF any THEN acc ELSE -1

\* parseInt(x, 10): leading white space, a sign, then digits; the rest is ignored
parseInt(x) ==
    IF x = Absent THEN NaN
    ELSE LET t == trimStart(x)
             negative == t # <<>> /\ Head(t) = "-"
             signed == t # <<>> /\ Head(t) \in {"-", "+"}
             v == digitsPrefix(IF signed THEN Tail(t) ELSE t, 0, FALSE)
         IN  IF v = -1 THEN NaN ELSE Number(IF negative THEN 0 - v ELSE v)

\* parseInt(...) || dflt : NaN and 0 are falsy
orDefault(n, dflt) == IF n.nan \/ n.value = 0 THEN dflt ELSE n.value

\* Math.ceil(a / b) for a >= 0 and b # 0
\* variant: Math.floor(a / b)
floorDiv(a, b) == IF b > 0 THEN a \div b ELSE 0 - ((a + (0 - b) - 1) \div (0 - b))
ceil(a, b) == IF b > 0 THEN (a + b - 1) \div b ELSE 0 - (a \div (0 - b))

\* .sort({ createdAt: -1 })
RECURSIVE sortNewestFirst(_)
sortNewestFirst(S) ==
    IF S = {} THEN <<>>
    ELSE LET newest == CHOOSE n \in S : \A m \in S : m.createdAt <= n.createdAt
         IN  <<newest>> \o sortNewestFirst(S \ {newest})

Min(a, b) == IF a < b THEN a ELSE b

\* .skip(skip).limit(limit) on the sorted result; a negative limit is taken
\* by the driver as its absolute value
skipLimit(sorted, skip, limit) ==
    LET n == IF limit < 0 THEN 0 - limit ELSE limit
    IN  SubSeq(sorted, skip + 1, Min(skip + n, Len(sorted)))

\* getNotes: MongoDB rejects a negative skip, and the catch answers 500
getNotes(user, rawPage, rawLimit) ==
    LET page == orDefault(parseInt(rawPage), DefaultPage)
        limit == orDefault(parseInt(rawLimit), DefaultLimit)
        skip == (page - 1) * limit
        mine == {n \in notes : n.user = user}
        totalNotes == Cardinality(mine)
    IN  IF skip < 0 THEN <<serverError>>
        ELSE <<Write(200, createSuccessResponse(
                 [kind |-> "notes",
                  notes |-> skipLimit(sortNewestFirst(mine), skip, limit),
                  pagination |-> [page |-> page, limit |-> limit,
                                  totalNotes |-> totalNotes,
                                  totalPages |-> ceil(totalNotes, limit)]], ""))>>

\* ------------------------------------------------------------ profile
\* UserAuth.findById(req.user.id).populate('profile')
getProfile(user) ==
    LET found == {a \in auths : a.id = user}
    IN  IF found = {}
        THEN <<Write(404, createErrorResponse(MsgUserNotFound))>>
        ELSE LET a == CHOOSE x \in found : TRUE
             IN  <<Write(200, createSuccessResponse(
                      [kind |-> "profile", profile |-> {d \in profiles : d.id = a.profile}], ""))>>

\* updateProfile: UserAuth.findById, then
\* UserProfile.findByIdAndUpdate(user.profile, { fullName, bio, avatar })
updateProfile(user, fields) ==
    LET found == {a \in auths : a.id = user}
    IN  IF found = {}
        THEN [writes |-> <<Write(404, createErrorResponse(MsgUserNotFound))>>,
              profiles |-> profiles]
        ELSE LET a == CHOOSE x \in found : TRUE
                 updated == {IF d.id = a.profile
                             THEN [d EXCEPT !.fullName = fields.fullName, !.bio = fields.bio,
                                            !.avatar = fields.avatar]
                             ELSE d : d \in profiles}
             IN  [writes |-> <<Write(200, createSuccessResponse(
                                  [kind |-> "profile",
                                   profile |-> {d \in updated : d.id = a.profile}], ""))>>,
                  profiles |-> updated]

\* ------------------------------------------------------ protected routes
\* router.use(authMiddleware), then the handler when next() was called
Denied(op, cred, m) == [op |-> op, cred |-> cred, ran |-> FALSE, user |-> 0, writes |-> m.writes]
Served(op, cred, m, fields, writes) ==
    [op |-> op, cred |-> cred, ran |-> TRUE, user |-> m.user, writes |-> m.writes \o writes,
     id |-> fields.id, title |-> fields.title, content |-> fields.content,
     page |-> fields.page, limit |-> fields.limit, before |-> NoteById(fields.id)]
NoFields == [id |-> 0, title |-> Absent, content |-> Absent, page |-> Absent, limit |-> Absent]

AuthFrame == <<production, session, auths, profiles, issued, succeeded, solved, reg, loginLog>>

CreateNote(cred, title, content) ==
    /\ noteSeq < MaxNotes
    /\ LET m == authMiddleware(cred)
           r == createNote(m.user, title, content)
       IN  IF m.next
           THEN /\ notes' = r.notes
                /\ noteSeq' = IF r.notes = notes THEN noteSeq ELSE noteSeq + 1
                /\ last' = Served("createNote", cred, m,
                                  [NoFields EXCEPT !.title = title, !.content = content],
                                  r.writes)
           ELSE /\ UNCHANGED <<notes, noteSeq>>
                /\ last' = Denied("createNote", cred, m)
    /\ UNCHANGED <<AuthFrame, now>>

GetNotes(cred, page, limit) ==
    /\ LET m == authMiddleware(cred)
       IN  last' = IF m.next
                   THEN Served("getNotes", cred, m,
                               [NoFields EXCEPT !.page = page, !.limit = limit],
                               getNotes(m.user, page, limit))
                   ELSE Denied("getNotes", cred, m)
    /\ UNCHANGED <<AuthFrame, now, notes, noteSeq>>

GetNote(cred, id) ==
    /\ LET m == authMiddleware(cred)
       IN  last' = IF m.next
                   THEN Served("getNote", cred, m, [NoFields EXCEPT !.id = id],
                               getNote(m.user, id))
                   ELSE Denied("getNote", cred, m)
    /\ UNCHANGED <<AuthFrame, now, notes, noteSeq>>

UpdateNote(cred, id, title, content) ==
    /\ LET m == authMiddleware(cred)
           r == updateNote(m.user, id, title, content)
       IN  IF m.next
           THEN /\ notes' = r.notes
                /\ last' = Served("updateNote", cred, m,
                                  [NoFields EXCEPT !.id = id, !.title = title,
                                                   !.content = content],
                                  r.writes)
           ELSE /\ notes' = notes
                /\ last' = Denied("updateNote", cred, m)
    /\ UNCHANGED <<AuthFrame, now, noteSeq>>

DeleteNote(cred, id) ==
    /\ LET m == authMiddleware(cred)
           r == deleteNote(m.user, id)
       IN  IF m.next
           THEN /\ notes' = r.notes
                /\ last' = Served("deleteNote", cred, m, [NoFields EXCEPT !.id = id], r.writes)
           ELSE /\ notes' = notes
                /\ last' = Denied("deleteNote", cred, m)
    /\ UNCHANGED <<AuthFrame, now, noteSeq>>

GetProfile(cred) ==
    /\ LET m == authMiddleware(cred)
       IN  last' = IF m.next
                   THEN Served("getProfile", cred, m, NoFields, getProfile(m.user))
                   ELSE Denied("getProfile", cred, m)
    /\ UNCHANGED <<AuthFrame, now, notes, noteSeq>>

UpdateProfile(cred, fields) ==
    /\ LET m == authMiddleware(cred)
           r == updateProfile(m.user, fields)
       IN  IF m.next
           THEN /\ profiles' = r.profiles
                /\ last' = Served("updateProfile", cred, m, NoFields, r.writes)
           ELSE /\ profiles' = profiles
                /\ last' = Denied("updateProfile", cred, m)
    /\ UNCHANGED <<production, session, auths, issued, succeeded, solved, reg, loginLog,
                   now, notes, noteSeq>>

\* a day passes
Tick ==
    /\ now < MaxTime
    /\ now' = now + 1
    /\ last' = [op |-> "tick"]
    /\ UNCHANGED <<AuthFrame, notes, noteSeq>>

\* ----------------------------------------------------------------- note spec
\* two accounts exist: the state after register requests for both usernames
SecondProfile == [id |-> 2, fullName |-> OtherUsername, bio |-> Absent, avatar |-> Absent]
SecondAuth == [id |-> 2, username |-> OtherUsername,
               password |-> bcryptHash(GoodPassword), profile |-> 2]
SecondToken == [sub |-> 2, iat |-> 0, exp |-> TokenTTL, sig |-> "JWT_SECRET"]
UserIds == {1, 2}

\* a token signed with another secret
Forged(u) == [sub |-> u, iat |-> now, exp |-> now + TokenTTL, sig |-> "other secret"]
\* what a client can put in the Authorization header
Credentials == issued \cup {NoToken} \cup {Forged(u) : u \in UserIds}

NoteIds == 1..(MaxNotes + 1)
Title1 == <<"t","1">>
Title2 == <<"t","2">>
Content1 == <<"c","1">>
Content2 == <<"c","2">>
\* PUT bodies: nothing, one field, both fields, an empty string for content
UpdateBodies ==
    { [title |-> Absent, content |-> Absent],
      [title |-> Title2, content |-> Absent],
      [title |-> Absent, content |-> Content2],
      [title |-> Title2, content |-> Content2],
      [title |-> Absent, content |-> <<>>] }
QueryInputs == { Absent, <<"a">>, <<"0">>, <<"1">>, <<"2">>, <<"-","1">>, <<"1","0">> }

\* the accounts, tokens and sessions after the two registers
TwoAccounts ==
    /\ session = [s \in Sessions |-> Absent]
    /\ auths = {RegisteredAuth, SecondAuth}
    /\ profiles = {RegisteredProfile, SecondProfile}
    /\ now = 0
    /\ issued = {RegisteredToken, SecondToken}
    /\ succeeded = {GoodUsername, OtherUsername}
    /\ solved = [s \in Sessions |-> FALSE]
    /\ reg = [r \in Reqs |-> Idle]
    /\ loginLog = {}
    /\ last = NoObservation

\* NODE_ENV only selects the message of the global error handler, which the
\* note handlers never reach with a verified token
InitNotes ==
    /\ production = FALSE
    /\ TwoAccounts
    /\ notes = {}
    /\ noteSeq = 0

NextNotes ==
    \/ \E cred \in issued : CreateNote(cred, Title1, Content1)
    \/ \E cred \in issued, id \in NoteIds : GetNote(cred, id)
    \/ \E cred \in issued, id \in NoteIds, body \in UpdateBodies :
          UpdateNote(cred, id, body.title, body.content)
    \/ \E cred \in issued, id \in NoteIds : DeleteNote(cred, id)

SpecNotes == InitNotes /\ [][NextNotes]_vars

\* --------------------------------------------------------------- access spec
InitAccess ==
    /\ production \in BOOLEAN
    /\ TwoAccounts
    /\ notes = {}
    /\ noteSeq = 0

NextAccess ==
    \/ Tick
    \/ \E cred \in Credentials, title \in {Absent, Title1} : CreateNote(cred, title, Absent)
    \/ \E cred \in Credentials, page \in {Absent, <<"2">>} : GetNotes(cred, page, <<"1">>)
    \/ \E cred \in Credentials, id \in NoteIds : GetNote(cred, id)
    \/ \E cred \in Credentials, id \in NoteIds : UpdateNote(cred, id, Title2, Absent)
    \/ \E cred \in Credentials, id \in NoteIds : DeleteNote(cred, id)
    \/ \E cred \in Credentials : GetProfile(cred)

SpecAccess == InitAccess /\ [][NextAccess]_vars

\* ----------------------------------------------------------------- race spec
\* register requests in flight at the same time, on an empty database
RaceBodies ==
    { [captcha |-> c, username |-> u, password |-> GoodPassword,
       fullName |-> Absent, bio |-> Absent, avatar |-> Absent]
        : c \in CaptchaTexts, u \in {GoodUsername, OtherUsername} }

NextRace ==
    \/ \E s \in Sessions, text \in CaptchaTexts :
          GenerateCaptcha(s, text, TRUE) /\ UNCHANGED loginLog
    \/ \E r \in Reqs, s \in Sessions, body \in RaceBodies : RegisterBegin(r, s, body)
    \/ \E r \in Reqs, ok \in BOOLEAN : RegisterSaveProfile(r, ok)
    \/ \E r \in Reqs, ok \in BOOLEAN : RegisterSaveAuth(r, ok)

SpecRace == Init /\ [][NextRace]_vars

\* --------------------------------------------------------------- writes spec
\* every route that can write more than once, with any credential; the PUT
\* /user/profile body supplies all three fields
FullProfile == [fullName |-> <<"A","l">>, bio |-> <<"h","i">>, avatar |-> <<"p">>]

NextWrites ==
    \/ \E s \in Sessions, text \in CaptchaTexts, saveOk \in BOOLEAN :
          GenerateCaptcha(s, text, saveOk) /\ UNCHANGED loginLog
    \/ \E cred \in Credentials : CreateNote(cred, Title1, Content1)
    \/ \E cred \in Credentials, id \in NoteIds : GetNote(cred, id)
    \/ \E cred \in Credentials, id \in NoteIds : UpdateNote(cred, id, Title2, Absent)
    \/ \E cred \in Credentials, id \in NoteIds : DeleteNote(cred, id)
    \/ \E cred \in Credentials : GetProfile(cred)
    \/ \E cred \in Credentials : UpdateProfile(cred, FullProfile)

SpecWrites == InitAccess /\ [][NextWrites]_vars

\* ----------------------------------------------------------------- list spec
\* n notes created one after the other by the first account, or with every
\* third one created by the second account
ListNote(i, mixed) ==
    [id |-> i, title |-> Title1, content |-> Absent,
     user |-> IF mixed /\ i % 3 = 0 THEN 2 ELSE 1, createdAt |-> i]

InitList ==
    /\ production = FALSE
    /\ TwoAccounts
    /\ \E n \in 0..MaxListNotes, mixed \in BOOLEAN :
          /\ notes = {ListNote(i, mixed) : i \in 1..n}
          /\ noteSeq = n

NextList ==
    \E cred \in issued, page \in QueryInputs, limit \in QueryInputs : GetNotes(cred, page, limit)

SpecList == InitList /\ [][NextList]_vars

\* ================================================================= claims
Completed(o) == o.op \in {"register", "login"} /\ o.writes # <<>>
Response(o) == Head(o.writes)
PassedCaptcha(o) == "captchaPassed" \in Range(o.trace)

\* two strings equal up to the case of their letters
SameIgnoringCase(a, b) ==
    /\ Len(a) = Len(b)
    /\ \A i \in 1..Len(a) :
          \/ a[i] = b[i]
          \/ \E k \in 1..26 : {a[i], b[i]} = {UpperChars[k], LowerChars[k]}

\* C1: on a session that holds a challenge, a register/login submission whose
\* answer equals the stored answer up to case passes validateCaptcha; once a
\* submission has passed, every further submission on that session fails with
\* the 'captcha expired' error until a new challenge is stored, whatever its
\* answer.
C1_SingleUse ==
    (last.op \in {"register", "login"} /\ last.cap # NoObservation) =>
        /\ ( /\ last.cap.captchaBefore # Absent
             /\ last.cap.captcha # Absent
             /\ SameIgnoringCase(last.cap.captcha, last.cap.captchaBefore) )
           => last.cap.passed
        /\ last.cap.solvedBefore =>
              /\ ~last.cap.passed
              /\ last.cap.error = ValidationError(MsgChallengeExpired)

\* a second submission of the right answer, after the first one passed
C1_Witness ==
    /\ last.op = "login"
    /\ last.cap.solvedBefore
    /\ last.cap.captcha \in CaptchaTexts
    /\ last.cap.error.message = MsgChallengeExpired

\* C4: within one register or login request, the credential lookup, the
\* creation of a Profile or Credential record and the issue of a token happen
\* only after validateCaptcha has passed in that request.
BusinessSteps == {"findOne", "saveProfile", "saveAuth", "createToken"}
CaptchaFirst(o) ==
    /\ \A i \in 1..Len(o.trace) :
          o.trace[i] \in BusinessSteps => \E j \in 1..(i - 1) : o.trace[j] = "captchaPassed"
    /\ (o.created # {} \/ o.token # NoToken) => PassedCaptcha(o)
C4_CaptchaBeforeLogic ==
    /\ last.op \in {"register", "login"} => CaptchaFirst(last)
    /\ \A r \in Reqs : reg[r] # Idle => CaptchaFirst(reg[r].obs)

\* a register request that created both records and returned a token
C4_Witness ==
    /\ last.op = "register"
    /\ last.token # NoToken
    /\ Cardinality(last.created) = 2
    /\ PassedCaptcha(last)

\* the password rule of the spec: 8 characters, a lowercase letter, an
\* uppercase letter and a digit
StrongPassword(p) ==
    /\ p # Absent
    /\ Len(p) >= 8
    /\ \E i \in 1..Len(p) : \E k \in 1..26 : p[i] = LowerChars[k]
    /\ \E i \in 1..Len(p) : \E k \in 1..26 : p[i] = UpperChars[k]
    /\ \E i \in 1..Len(p) : p[i] \in DigitChars

\* C5: once a register request for a username has been answered with a token,
\* every later register request for that username with a valid captcha and a
\* valid password is answered 400 'user exists', gets no token and creates no
\* Profile or Credential record.
C5_DuplicateRejected ==
    ( /\ last.op = "register"
      /\ last.writes # <<>>
      /\ last.registeredBefore
      /\ PassedCaptcha(last)
      /\ StrongPassword(last.password) )
    => /\ last.writes = <<Write(400, createErrorResponse(MsgAlreadyExists))>>
       /\ last.token = NoToken
       /\ last.created = {}

C5_Witness ==
    /\ last.op = "register"
    /\ last.registeredBefore
    /\ PassedCaptcha(last)
    /\ StrongPassword(last.password)
    /\ last.writes # <<>>
    /\ Response(last).status = 400

\* C6: of two logins that passed the captcha with a non-empty username and
\* password, one for a registered username with a wrong password and one for
\* a username that is not registered, the responses are equal in status and
\* body.
C6_NoEnumeration ==
    \A x, y \in loginLog :
        (x.registered /\ x.password # GoodPassword /\ ~y.registered)
            => x.write = y.write

\* both kinds of rejected login have been answered
C6_Witness ==
    /\ \E x \in loginLog : x.registered /\ x.password # GoodPassword /\ x.write.status = 400
    /\ \E y \in loginLog : ~y.registered /\ y.write.status = 400

\* C7: when a register request ends in an error response, the store holds no
\* Profile or Credential record that the request created.
Stored(c) ==
    \/ c[1] = "UserProfile" /\ \E d \in profiles : d.id = c[2]
    \/ c[1] = "UserAuth" /\ \E d \in auths : d.id = c[2]
C7_AllOrNothing ==
    (last.op = "register" /\ last.writes # <<>> /\ Response(last).status >= 400)
        => \A c \in last.created : ~Stored(c)

\* C8: a register request that passed the captcha is answered 400 with the
\* validation message and creates no record exactly when the username has
\* fewer than 3 characters or contains whitespace, or the password is not a
\* strong password.
HasWhiteSpace(u) == \E i \in 1..Len(u) : u[i] \in WhiteSpace
InvalidRegistration(u, p) ==
    \/ u = Absent
    \/ Len(u) < 3
    \/ HasWhiteSpace(u)
    \/ ~StrongPassword(p)
ValidationMessages == {MsgUsernameShort, MsgUsernameSpace, MsgPasswordShort, MsgPasswordWeak}
RejectedAsInvalid(o) ==
    /\ Response(o).status = 400
    /\ Response(o).body.message \in ValidationMessages
    /\ o.created = {}
C8_ValidationRule ==
    (last.op = "register" /\ last.writes # <<>> /\ PassedCaptcha(last))
        => (InvalidRegistration(last.username, last.password) <=> RejectedAsInvalid(last))

NoteOps == {"getNote", "updateNote", "deleteNote"}
ProtectedOps == NoteOps \cup {"createNote", "getNotes", "getProfile"}

\* C2: a getNote, updateNote or deleteNote request authenticated as one
\* identity on a note owned by another identity is answered 404, no response
\* of the request carries a note, and the note is still in the store as it was.
C2_OwnerIsolation ==
    ( /\ last.op \in NoteOps
      /\ last.ran
      /\ last.before # NoNote
      /\ last.before.user # last.user )
    => /\ Response(last).status = 404
       /\ \A i \in 1..Len(last.writes) : last.writes[i].body.data.kind # "note"
       /\ last.before \in notes

\* an update of somebody else's note was attempted after notes of both exist
C2_Witness ==
    /\ last.op = "updateNote"
    /\ last.ran
    /\ last.before # NoNote
    /\ last.before.user # last.user
    /\ last.title = Title2
    /\ \E n \in notes : n.user = last.user

\* C3: a note or profile handler runs only for a token that register/login
\* issued, that carries the server's signature and that has not expired, and
\* the handler sees the token's subject; without a bearer credential the
\* answer is 401 'no token', with a badly signed or expired token it is
\* 401 'token invalid', and in both cases the handler does not run.
C3_AuthGate ==
    last.op \in ProtectedOps =>
        /\ last.ran => /\ last.cred \in issued
                       /\ last.cred.sig = "JWT_SECRET"
                       /\ now < last.cred.exp
                       /\ last.user = last.cred.sub
        /\ last.cred = NoToken =>
              /\ ~last.ran
              /\ Response(last) = Write(401, createErrorResponse(MsgTokenMissing))
        /\ (last.cred # NoToken /\ (last.cred.sig # "JWT_SECRET" \/ now >= last.cred.exp)) =>
              /\ ~last.ran
              /\ Response(last) = Write(401, createErrorResponse(MsgTokenInvalid))

\* a token that register issued is presented after its seven days
C3_Witness ==
    /\ last.op = "getNote"
    /\ last.cred \in issued
    /\ now >= last.cred.exp
    /\ ~last.ran
    /\ Response(last).status = 401

\* C9, as stated: page and limit are the query values, 1 and 10 when absent
\* or not a number; the answer is 200 with the owner's notes at positions
\* (page-1)*limit+1 .. min(page*limit, N) of the newest-first order,
\* totalNotes = N and totalPages = ceil(N/limit).
QueryValue(raw) ==
    CASE raw = <<"0">> -> 0
      [] raw = <<"1">> -> 1
      [] raw = <<"2">> -> 2
      [] raw = <<"1","0">> -> 10
      [] raw = <<"-","1">> -> 0 - 1
NotANumber(raw) == raw \in {Absent, <<"a">>}
Requested(raw, dflt) == IF NotANumber(raw) THEN dflt ELSE QueryValue(raw)
Effective(raw, dflt) == IF NotANumber(raw) \/ QueryValue(raw) = 0 THEN dflt ELSE QueryValue(raw)

Owned(user) == {n \in notes : n.user = user}
\* how many of the owner's notes are newer than n
Newer(n) == Cardinality({m \in Owned(n.user) : m.createdAt > n.createdAt})

\* the response is the page (page, limit) of the owner's notes, newest first
IsPage(o, page, limit) ==
    LET N == Cardinality(Owned(o.user))
        data == Response(o).body.data
        first == (page - 1) * limit + 1
        lastPos == Min(page * limit, N)
    IN  /\ Len(o.writes) = 1
        /\ Response(o).status = 200
        /\ data.pagination.page = page
        /\ data.pagination.limit = limit
        /\ data.pagination.totalNotes = N
        /\ data.pagination.totalPages * limit >= N
        /\ (data.pagination.totalPages - 1) * limit < N \/ (N = 0 /\ data.pagination.totalPages = 0)
        /\ Len(data.notes) = (IF lastPos >= first THEN lastPos - first + 1 ELSE 0)
        /\ \A i \in 1..Len(data.notes) :
              /\ data.notes[i] \in Owned(o.user)
              /\ Newer(data.notes[i]) = first + i - 2

C10_PartialUpdate ==
    ( /\ last.op = "updateNote"
      /\ last.ran
      /\ last.before # NoNote
      /\ last.before.user = last.user )
    => LET after == NoteById(last.id)
       IN  /\ after.title = (IF last.title = Absent THEN last.before.title ELSE last.title)
           /\ after.content = (IF last.content = Absent THEN last.before.content
                                                         ELSE last.content)
           /\ after.user = last.before.user

\* C11: a GET /auth/captcha whose session save fails is answered 500 and
\* writes no 200 image response; a 200 image response is written only when
\* the session store holds the challenge answer of that request.
C11_SaveFailureSurfaces ==
    last.op = "captcha" =>
        /\ ~last.saveOk =>
              /\ Response(last).status = 500
              /\ \A i \in 1..Len(last.writes) : last.writes[i].status # 200
        /\ (\E i \in 1..Len(last.writes) : last.writes[i].status = 200) =>
              session[last.sess] = last.text

\* C12: every request to a protected route or to GET /auth/captcha writes
\* exactly one response, on every path through authMiddleware, getNote,
\* updateNote, deleteNote, getProfile, updateProfile and generateCaptcha.
C12_SingleResponse ==
    last.op \in ProtectedOps \cup {"updateProfile", "captcha"} => Len(last.writes) = 1

\* C13: in every state, under every interleaving of register requests, at
\* most one Credential holds a given username and at most one token has been
\* issued for it.
C13_UsernameUnique ==
    \A u \in {GoodUsername, OtherUsername} :
        /\ Cardinality({a \in auths : a.username = u}) <= 1
        /\ Cardinality({t \in issued : \E a \in auths : a.id = t.sub /\ a.username = u}) <= 1

\* two requests for one username both passed the existence check; the one
\* that saved second was rejected by the index
C13_Witness ==
    /\ last.op = "register"
    /\ "saveProfile" \in Range(last.trace)
    /\ last.writes # <<>>
    /\ Response(last) = errorHandler(StoreError("E11000 duplicate key"))
    /\ \E a \in auths : a.username = last.username /\ a.profile # Cardinality(profiles)
    /\ Cardinality(profiles) = 2
    /\ \A r \in Reqs : reg[r] = Idle

\* C14: a register or login submission that fails validateCaptcha (no
\* answer, or an answer that differs from the stored one) leaves the stored
\* challenge of its session as it was, so a right answer submitted next still
\* passes; a submission that passes removes the challenge, whether or not the
\* rest of the request then succeeds; nothing else in the request changes it.
C14_FailureKeepsChallenge ==
    (last.op \in {"register", "login"} /\ last.cap # NoObservation /\ last.cap.ran) =>
        LET cap == last.cap
        IN  /\ ~cap.passed => session[cap.sess] = cap.captchaBefore
            /\ cap.passed => session[cap.sess] = Absent
            /\ (cap.captchaBefore # Absent /\ cap.captcha # Absent
                  /\ SameIgnoringCase(cap.captcha, cap.captchaBefore)) => cap.passed
            /\ (cap.captchaBefore # Absent /\ ~cap.passed) =>
                  cap.error.message \in {MsgAnswerMissing, MsgAnswerMismatch}

\* a wrong answer was submitted on a session that holds a challenge, and
\* the challenge is still there
C14_Witness ==
    /\ last.op = "register"
    /\ last.cap # NoObservation
    /\ last.cap.ran
    /\ last.cap.error = ValidationError(MsgAnswerMismatch)
    /\ last.cap.captchaBefore \in CaptchaTexts
    /\ session[last.cap.sess] = last.cap.captchaBefore

====
